---------------------------- MODULE Spec2Model ----------------------------
(***************************************************************************)
(* A model of burn-contracts' shape pattern language: the pattern value    *)
(* and its rendering (src/shapes/exp.rs), the parser and the parse cache   *)
(* (src/shapes/parser.rs), the binding sources (src/shapes/bindings.rs),   *)
(* the matcher ShapePattern::match_bindings and ShapeMatch::select         *)
(* (src/shapes/exp.rs).                                                    *)
(*                                                                         *)
(* Strings are sequences of one-character strings, so that rendering and   *)
(* parsing work on characters.  Option<T> is a sequence of length 0 (None) *)
(* or 1 (Some).  A usize product that would overflow 64 bits is outside    *)
(* the value range explored here.                                          *)
(***************************************************************************)
EXTENDS Integers, Sequences, FiniteSets, TLC

VARIABLES
    \* ---- one call of ShapePattern::match_bindings ----
    pattern,        \* self: a ShapePattern
    shape,          \* shape: &[usize]
    source,         \* bindings: B, a list of (name, value) pairs
    mpc,            \* position in match_bindings: "start", "loop", "done"; "selected" after
                    \* select; "bind", "bound", "looked" where only a source is read
    i,              \* the running shape index (0-based, as in the code)
    k,              \* the component the for loop is at (1-based)
    bindings,       \* the collected HashMap of the external bindings
    export,         \* the export HashMap
    ellipsis_range, \* Option<Range<usize>>
    result,         \* what the call returned, or that it panicked
    \* ---- building, rendering and parsing a pattern ----
    built,          \* the ShapePattern a builder chain has made so far
    bpc,            \* "build", "panic" (an unwrap failed), "invalid" (new returned
                    \* an error), "parsed"; or "input", "parsed_input"
    text,           \* built.to_string(), once rendered
    parsed,         \* parse_shape_pattern(text), once parsed
    \* ---- calls of cached_parse_shape_pattern, one per thread at a time ----
    cpc,            \* position of each thread: "idle", "entered", "with", "ret"
    arg,            \* the input of each thread's call
    cache,          \* the Cache the call's use of PARSE_CACHE evaluates to
    ret,            \* what each thread's call returns
    returned,       \* history: per input, the results its calls returned
    later,          \* history: the call began after a Pattern was returned for its input
    \* ---- the caller's use of a match and of a binding source ----
    matched,        \* the ShapeMatch that match_bindings returned
    selected,       \* what ShapeMatch::select returned, or that it panicked
    source_kind,    \* "list" (slice, array or Vec of pairs) or "map" (HashMap)
    looked          \* a lookup_shape_binding call on source and what it returned

matchVars == <<pattern, shape, source, mpc, i, k, bindings, export,
               ellipsis_range, result>>
parseVars == <<built, bpc, text, parsed>>
cacheVars == <<cpc, arg, cache, ret, returned, later>>
useVars == <<matched, selected, source_kind, looked>>
vars == <<matchVars, parseVars, cacheVars, useVars>>

----------------------------------------------------------------------------
(* Bounds of the exploration *)

MaxComps == 3
MaxDims == 3
MaxThreads == 2
MaxKeys == 2
MaxPairs == 2

\* Sizes and bound values drawn for shapes and external bindings.
DimValues == {0, 1, 2}

\* The dimension names drawn for patterns and external bindings.
Names == {<<"h">>, <<"p">>}

----------------------------------------------------------------------------
(* Option<T> *)

None == <<>>
Some(x) == <<x>>
IsSome(o) == Len(o) = 1
Unwrap(o) == o[1]

(* HashMap<String, usize> as a function on the set of its keys *)

EmptyMap == [n \in {} |-> 0]
Insert(m, key, v) == [n \in (DOMAIN m) \cup {key} |-> IF n = key THEN v ELSE m[n]]

----------------------------------------------------------------------------
(* PatternComponent and ShapePattern *)

Dim(id) == [tag |-> "Dim", ids |-> <<id>>]
Ellipsis == [tag |-> "Ellipsis", ids |-> <<>>]
Composite(ids) == [tag |-> "Composite", ids |-> ids]

\* fn check_ellipsis_pos: Err (InvalidPattern) on a second ellipsis, else
\* Ok(the index of the ellipsis, 0-based, if any).
\* A scan that lets a later Ellipsis replace the position of an earlier one.
RECURSIVE check_ellipsis_scan_keeps_last(_, _, _)
check_ellipsis_scan_keeps_last(components, n, ellipsis_pos) ==
    IF n > Len(components) THEN [ok |-> TRUE, pos |-> ellipsis_pos]
    ELSE IF components[n].tag = "Ellipsis"
         THEN check_ellipsis_scan_keeps_last(components, n + 1, Some(n - 1))
         ELSE check_ellipsis_scan_keeps_last(components, n + 1, ellipsis_pos)

\* A scan that stores the position of the Ellipsis counted from one.
RECURSIVE check_ellipsis_scan_from_one(_, _, _)
check_ellipsis_scan_from_one(components, n, ellipsis_pos) ==
    IF n > Len(components) THEN [ok |-> TRUE, pos |-> ellipsis_pos]
    ELSE IF components[n].tag = "Ellipsis"
         THEN IF IsSome(ellipsis_pos)
              THEN [ok |-> FALSE, pos |-> None]
              ELSE check_ellipsis_scan_from_one(components, n + 1, Some(n))
         ELSE check_ellipsis_scan_from_one(components, n + 1, ellipsis_pos)

RECURSIVE check_ellipsis_scan(_, _, _)
check_ellipsis_scan(components, n, ellipsis_pos) ==
    IF n > Len(components) THEN [ok |-> TRUE, pos |-> ellipsis_pos]
    ELSE IF components[n].tag = "Ellipsis"
         THEN IF IsSome(ellipsis_pos)
              THEN [ok |-> FALSE, pos |-> None]
              ELSE check_ellipsis_scan(components, n + 1, Some(n - 1))
         ELSE check_ellipsis_scan(components, n + 1, ellipsis_pos)

check_ellipsis_pos(components) == check_ellipsis_scan(components, 1, None)

\* ShapePattern::new, on a component list that passes check_ellipsis_pos.
ShapePattern_new(components) ==
    [ellipsis_pos |-> check_ellipsis_pos(components).pos,
     components |-> components]

\* ShapePattern::ellipsis_pos(): the position of the first Ellipsis.
RECURSIVE position_from(_, _)
position_from(components, n) ==
    IF n > Len(components) THEN None
    ELSE IF components[n].tag = "Ellipsis" THEN Some(n - 1)
         ELSE position_from(components, n + 1)

ellipsis_pos_of(p) == position_from(p.components, 1)

\* ShapePattern::empty()
ShapePattern_empty == [ellipsis_pos |-> None, components |-> <<>>]

----------------------------------------------------------------------------
(* impl Display for PatternComponent and for ShapePattern *)

RECURSIVE WriteIds(_, _)
WriteIds(ids, n) ==
    IF n > Len(ids) THEN <<>> ELSE ids[n] \o <<" ">> \o WriteIds(ids, n + 1)

ComponentToString(c) ==
    IF c.tag = "Dim" THEN c.ids[1]
    ELSE IF c.tag = "Ellipsis" THEN <<".", ".", ".">>
    ELSE <<"(">> \o WriteIds(c.ids, 1) \o <<")">>

RECURSIVE WriteComponents(_, _)
WriteComponents(components, n) ==
    IF n > Len(components) THEN <<>>
    ELSE ComponentToString(components[n]) \o WriteComponents(components, n + 1)

PatternToString(p) == WriteComponents(p.components, 1)

----------------------------------------------------------------------------
(* The parser: nom combinators over (input, position) *)

\* The characters drawn: letters (alpha1), digits, whitespace.
Alpha == {"a", "b", "c", "h", "p", "x", "y"}
Digits == {"1"}
Space == {" "}
IdentRest == Alpha \cup Digits \cup {"_"}

Fail == [ok |-> FALSE, pos |-> 0, val |-> <<>>]
Parsed(pos, val) == [ok |-> TRUE, pos |-> pos, val |-> val]

RECURSIVE SkipWhile(_, _, _)
SkipWhile(s, pos, S) ==
    IF pos <= Len(s) /\ s[pos] \in S THEN SkipWhile(s, pos + 1, S) ELSE pos

\* multispace0: never fails.
multispace0(s, pos) == SkipWhile(s, pos, Space)

\* tag(t)
tag(t, s, pos) ==
    IF pos + Len(t) - 1 <= Len(s) /\ SubSeq(s, pos, pos + Len(t) - 1) = t
    THEN Parsed(pos + Len(t), t) ELSE Fail

\* recognize(pair(alt((alpha1, tag("_"))), many0(alt((alphanumeric1, tag("_"))))))
ident_parser(s, pos) ==
    LET first == IF pos <= Len(s) /\ s[pos] \in Alpha THEN SkipWhile(s, pos, Alpha)
                 ELSE IF pos <= Len(s) /\ s[pos] = "_" THEN pos + 1
                 ELSE pos
        end == SkipWhile(s, first, IdentRest)
    IN IF first = pos THEN Fail ELSE Parsed(end, SubSeq(s, pos, end - 1))

ellipsis_parser(s, pos) ==
    IF tag(<<".", ".", ".">>, s, pos).ok THEN Parsed(pos + 3, Ellipsis) ELSE Fail

dim_parser(s, pos) ==
    LET r == ident_parser(s, pos) IN
    IF r.ok THEN Parsed(r.pos, Dim(r.val)) ELSE Fail

\* separated_list1(multispace1, ident_parser), after its first element: a
\* separator that no identifier follows is left unconsumed.
RECURSIVE separated_rest(_, _, _)
separated_rest(s, pos, acc) ==
    LET after == SkipWhile(s, pos, Space)
        r == ident_parser(s, after)
    IN IF after = pos \/ ~r.ok THEN Parsed(pos, acc)
       ELSE separated_rest(s, r.pos, Append(acc, r.val))

composite_parser(s, pos) ==
    IF ~tag(<<"(">>, s, pos).ok THEN Fail
    ELSE LET first == ident_parser(s, multispace0(s, pos + 1)) IN
         IF ~first.ok THEN Fail
         ELSE LET list == separated_rest(s, first.pos, <<first.val>>)
                  close == tag(<<")">>, s, multispace0(s, list.pos))
              IN IF close.ok THEN Parsed(close.pos, Composite(list.val)) ELSE Fail

\* terminated(alt((ellipsis_parser, dim_parser, composite_parser)), multispace0)
component_parser(s, pos) ==
    LET e == ellipsis_parser(s, pos)
        d == dim_parser(s, pos)
        c == composite_parser(s, pos)
        r == IF e.ok THEN e ELSE IF d.ok THEN d ELSE c
    IN IF r.ok THEN Parsed(multispace0(s, r.pos), r.val) ELSE Fail

\* many1: at least one component, then as many as parse.
RECURSIVE many_components(_, _, _)
many_components(s, pos, acc) ==
    LET r == component_parser(s, pos) IN
    IF r.ok THEN many_components(s, r.pos, Append(acc, r.val))
    ELSE IF acc = <<>> THEN Fail ELSE Parsed(pos, acc)

components_parser(s) == many_components(s, 1, <<>>)

\* str::trim
RECURSIVE TrimEnd(_)
TrimEnd(s) ==
    IF s # <<>> /\ s[Len(s)] \in Space THEN TrimEnd(SubSeq(s, 1, Len(s) - 1)) ELSE s
Trim(s) == TrimEnd(SubSeq(s, SkipWhile(s, 1, Space), Len(s)))

\* Result<ShapePattern, ShapePatternError>
PatternOk(p) == [kind |-> "Ok", pattern |-> p, input |-> <<>>]
ParseError(input) ==
    [kind |-> "ParseError", pattern |-> ShapePattern_empty, input |-> input]
InvalidPattern(input) ==
    [kind |-> "InvalidPattern", pattern |-> ShapePattern_empty, input |-> input]

\* ShapePattern::new as a Result.
ShapePattern_try_new(components) ==
    IF check_ellipsis_pos(components).ok THEN PatternOk(ShapePattern_new(components))
    ELSE InvalidPattern(WriteComponents(components, 1))

\* A parse that takes the components of the input as given, not trimmed.
parse_shape_pattern_untrimmed(input) ==
    LET r == components_parser(input) IN
    IF r.ok
    THEN IF r.pos > Len(input) THEN ShapePattern_try_new(r.val)
         ELSE ParseError(input)
    ELSE ParseError(input)

parse_shape_pattern(input) ==
    LET r == components_parser(Trim(input)) IN
    IF r.ok
    THEN IF r.pos > Len(Trim(input)) THEN ShapePattern_try_new(r.val)
         ELSE ParseError(input)
    ELSE ParseError(input)

----------------------------------------------------------------------------
(* Binding sources *)

\* collect_binding_map: the pairs are inserted in iteration order, so a
\* later pair replaces an earlier one of the same name.
RECURSIVE collect_from(_, _, _)
collect_from(src, n, m) ==
    IF n > Len(src) THEN m
    ELSE collect_from(src, n + 1, Insert(m, src[n][1], src[n][2]))

collect_binding_map(src) == collect_from(src, 1, EmptyMap)

----------------------------------------------------------------------------
(* The inputs drawn *)

SeqsUpTo(S, n) == UNION {[1..m -> S] : m \in 0..n}

\* The factor lists drawn: two names, and one name twice.
CompositeIds == {<< <<"h">>, <<"p">> >>, << <<"h">>, <<"h">> >>}

Components ==
    {Dim(n) : n \in Names} \cup {Ellipsis}
        \cup {Composite(ids) : ids \in CompositeIds}

\* The ShapePattern values: those ShapePattern::new accepts.
Patterns ==
    {ShapePattern_new(cs) :
        cs \in {c \in SeqsUpTo(Components, MaxComps) : check_ellipsis_pos(c).ok}}

Shapes == SeqsUpTo(DimValues, MaxDims)

\* A binding source with each name at most once, as a HashMap gives.
Sources ==
    {<<>>} \cup {<<<<n, v>>>> : n \in Names, v \in DimValues}
           \cup {<< <<<<"h">>, v>>, <<<<"p">>, w>> >> : v \in DimValues, w \in DimValues}

----------------------------------------------------------------------------
(* The three parts of the model at rest *)

\* No call of match_bindings is under way.
NoResult == [kind |-> "None", msg |-> ""]
IdleMatch ==
    /\ pattern = ShapePattern_empty
    /\ shape = <<>>
    /\ source = <<>>
    /\ mpc = "done"
    /\ i = 0
    /\ k = 1
    /\ bindings = EmptyMap
    /\ export = EmptyMap
    /\ ellipsis_range = None
    /\ result = NoResult

\* Nothing is built, rendered or parsed yet.
NoParse == [kind |-> "None", pattern |-> ShapePattern_empty, input |-> <<>>]

IdleParse ==
    /\ built = ShapePattern_empty
    /\ bpc = "build"
    /\ text = <<>>
    /\ parsed = NoParse

Threads == 1..MaxThreads

\* The inputs the threads call with: two patterns, a parse error with
\* surrounding whitespace, a pattern with two ellipses.
CacheInputs ==
    {<<"h">>, <<"h", " ", "p">>, <<" ", "(">>, <<".", ".", ".", ".", ".", ".">>}

\* Cache::new(1000)
CacheCapacity == 1000
NewCache == EmptyMap

NoRet == NoParse

\* No thread is inside cached_parse_shape_pattern.
IdleCache ==
    /\ cpc = [t \in Threads |-> "idle"]
    /\ arg = [t \in Threads |-> <<>>]
    /\ cache = [t \in Threads |-> NewCache]
    /\ ret = [t \in Threads |-> NoRet]
    /\ returned = [s \in CacheInputs |-> {}]
    /\ later = [t \in Threads |-> FALSE]

\* No match was returned, nothing was selected or looked up yet.
ShapeMatch(s, b, r) == [shape |-> s, bindings |-> b, ellipsis_range |-> r]
NoMatch == ShapeMatch(<<>>, EmptyMap, None)
NoSelect == [kind |-> "None", keys |-> <<>>, values |-> <<>>]
NoLookup == [kind |-> "None", name |-> <<>>, value |-> None]

IdleUse ==
    /\ matched = NoMatch
    /\ selected = NoSelect
    /\ source_kind = "list"
    /\ looked = NoLookup

----------------------------------------------------------------------------
(* Building a pattern, rendering it and parsing it back *)

\* with_dim, with_ellipsis, with_composite: push, then
\* check_ellipsis_pos(..).unwrap(), which panics on an Err.
Extend(c) ==
    /\ bpc = "build"
    /\ Len(built.components) < MaxComps
    /\ LET components == Append(built.components, c) IN
       IF check_ellipsis_pos(components).ok
       THEN /\ built' = [ellipsis_pos |-> check_ellipsis_pos(components).pos,
                         components |-> components]
            /\ UNCHANGED bpc
       ELSE /\ bpc' = "panic"
            /\ UNCHANGED built
    /\ UNCHANGED <<text, parsed, matchVars, cacheVars, useVars>>

with_dim == \E id \in Names : Extend(Dim(id))
with_ellipsis == Extend(Ellipsis)
with_composite == \E ids \in CompositeIds : Extend(Composite(ids))

\* ShapePattern::new(components): a pattern, or the error of check_ellipsis_pos.
new ==
    /\ bpc = "build"
    /\ \E components \in SeqsUpTo(Components, MaxComps) :
          IF check_ellipsis_pos(components).ok
          THEN /\ built' = ShapePattern_new(components)
               /\ UNCHANGED bpc
          ELSE /\ bpc' = "invalid"
               /\ UNCHANGED built
    /\ UNCHANGED <<text, parsed, matchVars, cacheVars, useVars>>

\* ShapePattern::parse(&built.to_string())
RenderAndParse ==
    /\ bpc = "build"
    /\ text' = PatternToString(built)
    /\ parsed' = parse_shape_pattern(PatternToString(built))
    /\ bpc' = "parsed"
    /\ UNCHANGED <<built, matchVars, cacheVars, useVars>>

InitParse == IdleMatch /\ IdleCache /\ IdleUse /\ IdleParse

NextParse ==
    \/ new
    \/ with_dim
    \/ with_ellipsis
    \/ with_composite
    \/ RenderAndParse

SpecParse == InitParse /\ [][NextParse]_vars

----------------------------------------------------------------------------
(* Parsing a text a caller wrote *)

\* The pieces the texts are put together from: the characters of the
\* pattern language, and whole tokens so that short lists of pieces reach
\* texts of several components.
Pieces ==
    {<<"h">>, <<"1">>, <<"_">>, <<" ">>, <<"(">>, <<")">>, <<".">>,
     <<".", ".", ".">>, <<"(", "h", " ", "p", ")">>}

MaxPieces == 4

RECURSIVE Concat(_, _)
Concat(ps, n) == IF n > Len(ps) THEN <<>> ELSE ps[n] \o Concat(ps, n + 1)

\* The inputs of the parser's own tests (parser.rs:161-180), and two texts
\* that hold every kind of component around two ellipses.
TestTexts ==
    {<<".", ".", ".">>,
     <<"x">>,
     <<"b", " ", ".", ".", ".", "(", " ", "x", " ", " ", "y", " ", ")", " ", "c">>,
     <<"b", " ", ".", ".", ".", "(", "x", " ", "y", ")", ".", ".", ".", " ", "c">>,
     <<" ", "(", "x", ")", ".", ".", ".", "c", " ", ".", ".", ".", " ">>}

TextInputs == {Concat(ps, 1) : ps \in SeqsUpTo(Pieces, MaxPieces)} \cup TestTexts

\* ShapePattern::parse(text), or parse_shape_pattern(text)
ParseInput ==
    /\ bpc = "input"
    /\ parsed' = parse_shape_pattern(text)
    /\ bpc' = "parsed_input"
    /\ UNCHANGED <<built, text, matchVars, cacheVars, useVars>>

InitText ==
    /\ IdleMatch
    /\ IdleCache
    /\ IdleUse
    /\ built = ShapePattern_empty
    /\ bpc = "input"
    /\ text \in TextInputs
    /\ parsed = NoParse

NextText == ParseInput

SpecText == InitText /\ [][NextText]_vars

----------------------------------------------------------------------------
(* cached_parse_shape_pattern *)

\* PARSE_CACHE is a const item: each expression that names it evaluates
\* Lazy::new(..) anew, so the call works on a Cache of its own, which is
\* dropped when the call's statement ends.
PARSE_CACHE == NewCache

\* A closure that parses the trimmed input.
with_trimmed(input) == parse_shape_pattern(Trim(input))

\* The closure handed to get_or_insert_with.
with(input) == parse_shape_pattern(input)

\* Cache::insert, evicting an entry at capacity.
CacheInsert(c, key, v) ==
    IF key \in DOMAIN c \/ Cardinality(DOMAIN c) < CacheCapacity
    THEN Insert(c, key, v)
    ELSE LET out == CHOOSE x \in DOMAIN c : TRUE IN
         Insert([x \in (DOMAIN c) \ {out} |-> c[x]], key, v)

\* cached_parse_shape_pattern(input) is entered: PARSE_CACHE is evaluated.
CachedParseCall(t, input) ==
    /\ cpc[t] = "idle"
    /\ cpc' = [cpc EXCEPT ![t] = "entered"]
    /\ arg' = [arg EXCEPT ![t] = input]
    /\ cache' = [cache EXCEPT ![t] = PARSE_CACHE]
    /\ ret' = [ret EXCEPT ![t] = NoRet]
    /\ later' = [later EXCEPT ![t] = \E r \in returned[input] : r.kind = "Ok"]
    /\ UNCHANGED <<returned, matchVars, parseVars, useVars>>

\* get_or_insert_with: the lookup of the key.
CacheLookup(t) ==
    /\ cpc[t] = "entered"
    /\ IF arg[t] \in DOMAIN cache[t]
       THEN /\ ret' = [ret EXCEPT ![t] = PatternOk(cache[t][arg[t]])]
            /\ cpc' = [cpc EXCEPT ![t] = "ret"]
       ELSE /\ cpc' = [cpc EXCEPT ![t] = "with"]
            /\ UNCHANGED ret
    /\ UNCHANGED <<arg, cache, returned, later, matchVars, parseVars, useVars>>

\* get_or_insert_with on a miss: the closure runs; an Ok value is inserted,
\* an Err is returned and nothing is inserted.
CacheWith(t) ==
    /\ cpc[t] = "with"
    /\ ret' = [ret EXCEPT ![t] = with(arg[t])]
    /\ cache' = [cache EXCEPT ![t] =
                    IF ret'[t].kind = "Ok"
                    THEN CacheInsert(cache[t], arg[t], ret'[t].pattern)
                    ELSE cache[t]]
    /\ cpc' = [cpc EXCEPT ![t] = "ret"]
    /\ UNCHANGED <<arg, returned, later, matchVars, parseVars, useVars>>

\* The call returns; the temporary Lazy<Cache> is dropped.
CachedParseReturn(t) ==
    /\ cpc[t] = "ret"
    /\ returned' = [s \in CacheInputs |->
                      IF s = arg[t] THEN returned[s] \cup {ret[t]} ELSE returned[s]]
    /\ cpc' = [cpc EXCEPT ![t] = "idle"]
    /\ cache' = [cache EXCEPT ![t] = NewCache]
    /\ UNCHANGED <<arg, ret, later, matchVars, parseVars, useVars>>

InitCache == IdleMatch /\ IdleParse /\ IdleUse /\ IdleCache

NextCache ==
    \/ \E t \in Threads, input \in CacheInputs : CachedParseCall(t, input)
    \/ \E t \in Threads : CacheLookup(t)
    \/ \E t \in Threads : CacheWith(t)
    \/ \E t \in Threads : CachedParseReturn(t)

SpecCache == InitCache /\ [][NextCache]_vars

----------------------------------------------------------------------------
(* ShapePattern::match_bindings *)

Err(msg) == [kind |-> "Err", msg |-> msg]
Panic(msg) == [kind |-> "Panic", msg |-> msg]
Ok == [kind |-> "Ok", msg |-> ""]

non_e_comps(p) ==
    IF IsSome(ellipsis_pos_of(p)) THEN Len(p.components) - 1
    ELSE Len(p.components)

\* A guard that counts one component less whether or not there is an ellipsis.
NotEnoughDims_always_minus_one(p, s) == Len(p.components) - 1 > Len(s)

\* The guard of the early return.
NotEnoughDims(p, s) == non_e_comps(p) > Len(s)

\* ellipsis_pos.map(|pos| pos..pos + dims - non_e_comps)
\* A range whose end subtracts all components, the ellipsis with them.
EllipsisRange_counts_ellipsis(p, s) ==
    IF IsSome(ellipsis_pos_of(p))
    THEN Some(<<Unwrap(ellipsis_pos_of(p)),
                Unwrap(ellipsis_pos_of(p)) + Len(s) - Len(p.components)>>)
    ELSE None

EllipsisRange(p, s) ==
    IF IsSome(ellipsis_pos_of(p))
    THEN Some(<<Unwrap(ellipsis_pos_of(p)),
                Unwrap(ellipsis_pos_of(p)) + Len(s) - non_e_comps(p)>>)
    ELSE None

\* fn readthrough_lookup: the value found and the target map afterwards.
\* A lookup that reads the external bindings without copying into target.
readthrough_lookup_reads_only(b, target, id) ==
    IF id \in DOMAIN target THEN [value |-> Some(target[id]), target |-> target]
    ELSE IF id \in DOMAIN b
         THEN [value |-> Some(b[id]), target |-> target]
         ELSE [value |-> None, target |-> target]

readthrough_lookup(b, target, id) ==
    IF id \in DOMAIN target THEN [value |-> Some(target[id]), target |-> target]
    ELSE IF id \in DOMAIN b
         THEN [value |-> Some(b[id]), target |-> Insert(target, id, b[id])]
         ELSE [value |-> None, target |-> target]

\* A comparison that accepts any bound value.
DimAgrees_unchecked(bound_value, dim_shape) == TRUE

\* The comparison of a bound Dim with the shape.
DimAgrees(bound_value, dim_shape) == bound_value = dim_shape

\* A factor loop that keeps the last unbound factor and goes on.
RECURSIVE CompositeFactors_keeps_last(_, _, _, _, _, _)
CompositeFactors_keeps_last(ids, n, acc, unbound, b, target) ==
    IF n > Len(ids)
    THEN [multiple |-> FALSE, acc |-> acc, unbound |-> unbound, target |-> target]
    ELSE LET r == readthrough_lookup(b, target, ids[n]) IN
         IF IsSome(r.value)
         THEN CompositeFactors_keeps_last(ids, n + 1, acc * Unwrap(r.value),
                                          unbound, b, r.target)
         ELSE CompositeFactors_keeps_last(ids, n + 1, acc, Some(ids[n]), b, r.target)

\* The for loop over a composite's factors.
RECURSIVE CompositeFactors(_, _, _, _, _, _)
CompositeFactors(ids, n, acc, unbound, b, target) ==
    IF n > Len(ids)
    THEN [multiple |-> FALSE, acc |-> acc, unbound |-> unbound, target |-> target]
    ELSE LET r == readthrough_lookup(b, target, ids[n]) IN
         IF IsSome(r.value)
         THEN CompositeFactors(ids, n + 1, acc * Unwrap(r.value), unbound, b, r.target)
         ELSE IF IsSome(unbound)
              THEN [multiple |-> TRUE, acc |-> acc, unbound |-> unbound,
                    target |-> r.target]
              ELSE CompositeFactors(ids, n + 1, acc, Some(ids[n]), b, r.target)

\* What follows the factor loop: nothing is checked unless a factor is unbound.
\* An outcome that passes over a composite with several unbound factors,
\* as if a later pass were to come back to it.
CompositeOutcome_defers_multiple(f, dim_shape) ==
    IF f.multiple THEN [res |-> NoResult, target |-> f.target]
    ELSE IF IsSome(f.unbound)
         THEN IF f.acc = 0
              THEN [res |-> Panic("remainder with a divisor of zero"),
                    target |-> f.target]
              ELSE IF dim_shape % f.acc # 0
                   THEN [res |-> Err("Mismatch"), target |-> f.target]
                   ELSE [res |-> NoResult,
                         target |-> Insert(f.target, Unwrap(f.unbound),
                                           dim_shape \div f.acc)]
         ELSE [res |-> NoResult, target |-> f.target]

CompositeOutcome(f, dim_shape) ==
    IF f.multiple THEN [res |-> Err("Multiple Unbound"), target |-> f.target]
    ELSE IF IsSome(f.unbound)
         THEN IF f.acc = 0
              THEN [res |-> Panic("remainder with a divisor of zero"),
                    target |-> f.target]
              ELSE IF dim_shape % f.acc # 0
                   THEN [res |-> Err("Mismatch"), target |-> f.target]
                   ELSE [res |-> NoResult,
                         target |-> Insert(f.target, Unwrap(f.unbound),
                                           dim_shape \div f.acc)]
         ELSE [res |-> NoResult, target |-> f.target]

Finish(r) ==
    /\ result' = r
    /\ mpc' = "done"

\* Lines 289-301: the length check, the ellipsis range, the collected map.
MatchStart ==
    /\ mpc = "start"
    /\ IF NotEnoughDims(pattern, shape)
       THEN /\ Finish(Err("Not Enough Dims"))
            /\ UNCHANGED <<i, k, bindings, export, ellipsis_range>>
       ELSE /\ ellipsis_range' = EllipsisRange(pattern, shape)
            /\ bindings' = collect_binding_map(source)
            /\ export' = EmptyMap
            /\ i' = 0
            /\ k' = 1
            /\ mpc' = "loop"
            /\ UNCHANGED result
    /\ UNCHANGED <<pattern, shape, source>>
    /\ UNCHANGED <<parseVars, cacheVars, useVars>>

AtComponent == mpc = "loop" /\ k <= Len(pattern.components)
component == pattern.components[k]

\* Line 322: shape[i] is read before the component is looked at.
LoopIndexPanic ==
    /\ AtComponent
    /\ i >= Len(shape)
    /\ Finish(Panic("index out of bounds"))
    /\ UNCHANGED <<pattern, shape, source, i, k, bindings, export, ellipsis_range>>
    /\ UNCHANGED <<parseVars, cacheVars, useVars>>

LoopEllipsis ==
    /\ AtComponent
    /\ i < Len(shape)
    /\ component.tag = "Ellipsis"
    /\ i' = Unwrap(ellipsis_range)[2]
    /\ k' = k + 1
    /\ UNCHANGED <<pattern, shape, source, mpc, bindings, export, ellipsis_range, result>>
    /\ UNCHANGED <<parseVars, cacheVars, useVars>>

LoopDim ==
    /\ AtComponent
    /\ i < Len(shape)
    /\ component.tag = "Dim"
    /\ LET dim_shape == shape[i + 1]
           id == component.ids[1]
           r == readthrough_lookup(bindings, export, id)
       IN IF IsSome(r.value)
          THEN IF ~DimAgrees(Unwrap(r.value), dim_shape)
               THEN /\ Finish(Err("Mismatch"))
                    /\ export' = r.target
                    /\ UNCHANGED <<i, k>>
               ELSE /\ export' = r.target
                    /\ i' = i + 1
                    /\ k' = k + 1
                    /\ UNCHANGED <<mpc, result>>
          ELSE /\ export' = Insert(r.target, id, dim_shape)
               /\ i' = i + 1
               /\ k' = k + 1
               /\ UNCHANGED <<mpc, result>>
    /\ UNCHANGED <<pattern, shape, source, bindings, ellipsis_range>>
    /\ UNCHANGED <<parseVars, cacheVars, useVars>>

LoopComposite ==
    /\ AtComponent
    /\ i < Len(shape)
    /\ component.tag = "Composite"
    /\ LET dim_shape == shape[i + 1]
           f == CompositeFactors(component.ids, 1, 1, None, bindings, export)
           o == CompositeOutcome(f, dim_shape)
       IN /\ export' = o.target
          /\ IF o.res.kind = "None"
             THEN /\ i' = i + 1
                  /\ k' = k + 1
                  /\ UNCHANGED <<mpc, result>>
             ELSE /\ Finish(o.res)
                  /\ UNCHANGED <<i, k>>
    /\ UNCHANGED <<pattern, shape, source, bindings, ellipsis_range>>
    /\ UNCHANGED <<parseVars, cacheVars, useVars>>

\* Lines 364-368: Ok(ShapeMatch { shape, bindings: export, ellipsis_range }).
MatchReturn ==
    /\ mpc = "loop"
    /\ k > Len(pattern.components)
    /\ Finish(Ok)
    /\ matched' = ShapeMatch(shape, export, ellipsis_range)
    /\ UNCHANGED <<pattern, shape, source, i, k, bindings, export, ellipsis_range>>
    /\ UNCHANGED <<parseVars, cacheVars, selected, source_kind, looked>>

\* A select that leaves the 0 of `[0; D]` where a key is not found.
RECURSIVE select_or_zero(_, _, _, _)
select_or_zero(m, keys, n, res) ==
    IF n > Len(keys) THEN [kind |-> "Ok", keys |-> keys, values |-> res]
    ELSE IF keys[n] \in DOMAIN m.bindings
         THEN select_or_zero(m, keys, n + 1,
                             [j \in 1..Len(keys) |->
                                 IF j = n THEN m.bindings[keys[n]] ELSE res[j]])
         ELSE select_or_zero(m, keys, n + 1, res)

\* ShapeMatch::select, from its n-th key on: `result[i] = *get(key).unwrap()`.
RECURSIVE select(_, _, _, _)
select(m, keys, n, res) ==
    IF n > Len(keys) THEN [kind |-> "Ok", keys |-> keys, values |-> res]
    ELSE IF keys[n] \in DOMAIN m.bindings
         THEN select(m, keys, n + 1,
                     [j \in 1..Len(keys) |->
                         IF j = n THEN m.bindings[keys[n]] ELSE res[j]])
         ELSE [kind |-> "Panic", keys |-> keys, values |-> <<>>]

\* The key arrays a caller passes to select.
SelectKeys == SeqsUpTo(Names, MaxKeys)

\* m.select(keys) on the ShapeMatch a successful match returned.
Select ==
    /\ mpc = "done"
    /\ result.kind = "Ok"
    /\ \E keys \in SelectKeys :
          selected' = select(matched, keys, 1, [j \in 1..Len(keys) |-> 0])
    /\ mpc' = "selected"
    /\ UNCHANGED <<pattern, shape, source, i, k, bindings, export, ellipsis_range,
                   result>>
    /\ UNCHANGED <<parseVars, cacheVars, matched, source_kind, looked>>

InitMatch ==
    /\ IdleParse
    /\ IdleCache
    /\ IdleUse
    /\ pattern \in Patterns
    /\ shape \in Shapes
    /\ source \in Sources
    /\ mpc = "start"
    /\ i = 0
    /\ k = 1
    /\ bindings = EmptyMap
    /\ export = EmptyMap
    /\ ellipsis_range = None
    /\ result = NoResult

NextMatch ==
    \/ MatchStart
    \/ LoopIndexPanic
    \/ LoopEllipsis
    \/ LoopDim
    \/ LoopComposite
    \/ MatchReturn
    \/ Select

SpecMatch == InitMatch /\ [][NextMatch]_vars

----------------------------------------------------------------------------
(* Reading a binding source: collect_binding_map and lookup_shape_binding *)

\* Iterator::find over for_each_shape_binding: the first pair of the name.
RECURSIVE find_from(_, _, _)
find_from(src, n, name) ==
    IF n > Len(src) THEN None
    ELSE IF src[n][1] = name THEN Some(src[n][2])
         ELSE find_from(src, n + 1, name)

\* HashMap::get(name).copied(), the map given by its pairs in iteration order.
hashmap_get(src, name) ==
    IF \E n \in 1..Len(src) : src[n][1] = name
    THEN Some(src[CHOOSE n \in 1..Len(src) : src[n][1] = name][2])
    ELSE None

\* lookup_shape_binding: the trait's default, or the HashMap's own.
lookup_shape_binding(kind, src, name) ==
    IF kind = "map" THEN hashmap_get(src, name) ELSE find_from(src, 1, name)

\* The sources drawn: lists of pairs, and maps, whose keys are distinct.
PairLists == SeqsUpTo(Names \X DimValues, MaxPairs)
MapPairs == {src \in PairLists :
                \A m \in 1..Len(src) : \A n \in 1..Len(src) :
                    src[m][1] = src[n][1] => m = n}

\* Line 300 of match_bindings: the external bindings it works with.
CollectBindings ==
    /\ mpc = "bind"
    /\ bindings' = collect_binding_map(source)
    /\ mpc' = "bound"
    /\ UNCHANGED <<pattern, shape, source, i, k, export, ellipsis_range, result>>
    /\ UNCHANGED <<parseVars, cacheVars, useVars>>

\* lookup_binding(source, name)
LookupBinding ==
    /\ mpc = "bound"
    /\ \E name \in Names :
          looked' = [kind |-> "Returned", name |-> name,
                     value |-> lookup_shape_binding(source_kind, source, name)]
    /\ mpc' = "looked"
    /\ UNCHANGED <<pattern, shape, source, i, k, bindings, export, ellipsis_range,
                   result>>
    /\ UNCHANGED <<parseVars, cacheVars, matched, selected, source_kind>>

InitBind ==
    /\ IdleParse
    /\ IdleCache
    /\ pattern = ShapePattern_empty
    /\ shape = <<>>
    /\ \/ source_kind = "list" /\ source \in PairLists
       \/ source_kind = "map" /\ source \in MapPairs
    /\ mpc = "bind"
    /\ i = 0
    /\ k = 1
    /\ bindings = EmptyMap
    /\ export = EmptyMap
    /\ ellipsis_range = None
    /\ result = NoResult
    /\ matched = NoMatch
    /\ selected = NoSelect
    /\ looked = NoLookup

NextBind ==
    \/ CollectBindings
    \/ LookupBinding

SpecBind == InitBind /\ [][NextBind]_vars

----------------------------------------------------------------------------
(* Properties of cached_parse_shape_pattern *)

\* C5: once a call cached_parse(s) has returned a Pattern, a later call
\* with s is served from the cache: its lookup does not go on to the parser.
C5_RepeatedCallServedFromCache ==
    [][\A t \in Threads :
          (cpc[t] = "entered" /\ later[t]) => cpc'[t] # "with"]_vars

\* C6: every call of cached_parse(s), in any interleaving of the threads,
\* returns what parse(s) returns; all the calls with one string return the
\* same result; and a cache never holds, for a key, a pattern other than
\* the one parse(key) gives.
C6_CachedParseEqualsParse ==
    /\ \A t \in Threads : cpc[t] = "ret" => ret[t] = parse_shape_pattern(arg[t])
    /\ \A s \in CacheInputs :
          /\ Cardinality(returned[s]) <= 1
          /\ \A r \in returned[s] : r = parse_shape_pattern(s)
    /\ \A t \in Threads : \A key \in DOMAIN cache[t] :
          PatternOk(cache[t][key]) = parse_shape_pattern(key)

\* Two threads race on one string that an earlier call has already returned:
\* one has its result, the other is still in the closure; an error has been
\* returned for another string.
C6_Witness ==
    /\ cpc[1] = "ret" /\ cpc[2] = "with"
    /\ arg[1] = <<"h", " ", "p">> /\ arg[2] = <<"h", " ", "p">>
    /\ returned[<<"h", " ", "p">>] # {}
    /\ returned[<<" ", "(">>] # {}

----------------------------------------------------------------------------
(* Properties of rendering and parsing *)

\* C7: a pattern with at least one component, rendered with to_string and
\* parsed again, gives a Pattern structurally equal to itself.
C7_DisplayRoundTrips ==
    (bpc = "parsed" /\ built.components # <<>>) => parsed = PatternOk(built)

----------------------------------------------------------------------------
(* Properties of match_bindings *)

Done == mpc = "done"
NonEllipsisCount(p) ==
    Cardinality({q \in 1..Len(p.components) : p.components[q].tag # "Ellipsis"})
HasEllipsis(p) == \E q \in 1..Len(p.components) : p.components[q].tag = "Ellipsis"

\* A name is resolved when the export map or the external bindings hold it.
Resolved(id) == id \in (DOMAIN export) \cup (DOMAIN bindings)
ValueOf(id) == IF id \in DOMAIN export THEN export[id] ELSE bindings[id]
UnresolvedAt(ids) == {n \in 1..Len(ids) : ~Resolved(ids[n])}
RECURSIVE ProductOfResolved(_, _)
ProductOfResolved(ids, n) ==
    IF n > Len(ids) THEN 1
    ELSE (IF Resolved(ids[n]) THEN ValueOf(ids[n]) ELSE 1)
             * ProductOfResolved(ids, n + 1)
IsMultiple(v, d) == \E q \in 0..v : q * d = v

\* The loop is at a component of the given kind, with shape[i] read.
Reached(kind) == AtComponent /\ i < Len(shape) /\ component.tag = kind

\* C1: a pattern without an ellipsis that has k components matches only
\* shapes of length exactly k: a shorter shape fails with "Not Enough Dims"
\* and a longer shape never yields a Match.
C1_ExactLengthWithoutEllipsis ==
    (Done /\ ~HasEllipsis(pattern)) =>
        /\ (Len(shape) < Len(pattern.components)
                => result = Err("Not Enough Dims"))
        /\ (result.kind = "Ok" => Len(shape) = Len(pattern.components))

\* C2: when every factor of a Composite is resolved as the composite is
\* reached and the product of the factors differs from the shape value
\* there, the match fails with "Mismatch".
C2_ResolvedCompositeProductChecked ==
    [][(/\ Reached("Composite")
        /\ UnresolvedAt(component.ids) = {}
        /\ ProductOfResolved(component.ids, 1) # shape[i + 1])
            => result' = Err("Mismatch")]_vars

\* C3: a pattern with an ellipsis at position p, matched against a shape
\* with as many dimensions as the pattern has non-ellipsis components,
\* ends in a Match whose ellipsis_range is the empty range [p, p), or in an
\* error of a Dim or Composite constraint.
C3_EllipsisMatchesZeroDims ==
    (Done /\ HasEllipsis(pattern) /\ Len(shape) = NonEllipsisCount(pattern)) =>
        \/ /\ result.kind = "Ok"
           /\ ellipsis_range = Some(<<Unwrap(ellipsis_pos_of(pattern)),
                                      Unwrap(ellipsis_pos_of(pattern))>>)
        \/ result \in {Err("Mismatch"), Err("Multiple Unbound")}

\* C4: match_bindings never panics: every call returns Ok or an Err value.
C4_NeverPanics == result.kind # "Panic"

\* C8: when exactly one factor of a Composite is unresolved as the
\* composite is reached, with product the product of the resolved factors
\* and v the shape value there: if v is no exact multiple of product the
\* match fails with "Mismatch"; otherwise the unresolved name is bound to
\* a value whose product with the others is v, and the loop goes on.
C8_SingleUnboundFactorInferred ==
    [][(/\ Reached("Composite")
        /\ Cardinality(UnresolvedAt(component.ids)) = 1)
            => LET ids == component.ids
                   u == ids[CHOOSE n \in UnresolvedAt(ids) : TRUE]
                   product == ProductOfResolved(ids, 1)
                   v == shape[i + 1]
               IN IF ~IsMultiple(v, product)
                  THEN result' = Err("Mismatch")
                  ELSE /\ mpc' = "loop"
                       /\ u \in DOMAIN export'
                       /\ export'[u] * product = v]_vars

\* The shape position (1-based) of the q-th component of a pattern that is
\* matched: its own position before the ellipsis, and as far from the end
\* of the shape as it is from the end of the pattern after it.
ShapeIndexOf(q) ==
    IF \E e \in 1..(q - 1) : pattern.components[e].tag = "Ellipsis"
    THEN Len(shape) - (Len(pattern.components) - q)
    ELSE q

\* C9: a Dim(name) reached at shape index i fails the match with "Mismatch"
\* when name is resolved to a value other than shape[i], and otherwise
\* leaves name bound to shape[i]; no binding of the export map is changed
\* later, so a Match binds every Dim name to its shape value.
C9_DimBoundToShapeValue ==
    [][/\ Reached("Dim") =>
            LET id == component.ids[1] IN
            IF Resolved(id) /\ ValueOf(id) # shape[i + 1]
            THEN result' = Err("Mismatch")
            ELSE /\ mpc' = "loop"
                 /\ i' = i + 1
                 /\ id \in DOMAIN export'
                 /\ export'[id] = shape[i + 1]
       /\ \A n \in DOMAIN export : n \in DOMAIN export' /\ export'[n] = export[n]
      ]_vars
    /\ [](result.kind = "Ok" =>
            \A q \in 1..Len(pattern.components) :
                pattern.components[q].tag = "Dim" =>
                    /\ pattern.components[q].ids[1] \in DOMAIN export
                    /\ export[pattern.components[q].ids[1]] = shape[ShapeIndexOf(q)])

\* A Match of a pattern that names one Dim twice around a non-empty ellipsis,
\* one name carried in from the external bindings.
C9_Witness ==
    /\ Done
    /\ result.kind = "Ok"
    /\ pattern.components = <<Dim(<<"h">>), Ellipsis, Dim(<<"h">>)>>
    /\ Len(shape) = 3
    /\ <<"h">> \in DOMAIN bindings

\* C10: when the pattern has more non-ellipsis components than the shape
\* has dimensions the call fails with "Not Enough Dims", whatever the
\* bindings, and before any component is examined.
C10_TooFewDimensionsFirst ==
    (Done /\ NonEllipsisCount(pattern) > Len(shape)) =>
        /\ result = Err("Not Enough Dims")
        /\ k = 1
        /\ export = EmptyMap

\* A call with too few dimensions whose bindings also conflict with the shape.
C10_Witness ==
    /\ Done
    /\ pattern.components = <<Dim(<<"h">>), Ellipsis, Dim(<<"p">>)>>
    /\ shape = <<1>>
    /\ source = << <<<<"h">>, 2>> >>
    /\ result = Err("Not Enough Dims")

\* The names that are unresolved among a composite's factors.
UnresolvedNames(ids) == {ids[n] : n \in UnresolvedAt(ids)}

\* C11 as stated: a Composite reached with more than one factor name
\* unresolved fails the match with "Multiple Unbound", and one reached with
\* at most one unresolved name does not.
C11_MultipleUnboundByName ==
    [][Reached("Composite") =>
          (result' = Err("Multiple Unbound")
              <=> Cardinality(UnresolvedNames(component.ids)) > 1)]_vars

\* C11, amended: a Composite reached with more than one unresolved factor,
\* a name listed twice counting twice, fails the match with "Multiple
\* Unbound", and one reached with at most one unresolved factor does not.
C11_MultipleUnboundByFactor ==
    [][Reached("Composite") =>
          (result' = Err("Multiple Unbound")
              <=> Cardinality(UnresolvedAt(component.ids)) > 1)]_vars

\* The match has failed with "Multiple Unbound" at a composite of two
\* names, after an earlier component, neither name being resolved.
C11_Witness ==
    /\ Done
    /\ result = Err("Multiple Unbound")
    /\ k = 2
    /\ pattern.components[2] = Composite(<< <<"h">>, <<"p">> >>)
    /\ UnresolvedNames(pattern.components[2].ids) = {<<"h">>, <<"p">>}

----------------------------------------------------------------------------
(* Properties of parsing a text *)

\* The grammar of pattern texts, stated on the text itself.
Letters == {"a", "b", "c", "h", "p", "x", "y"}
IdentChars == Letters \cup {"1", "_"}

IsIdent(w) ==
    /\ w # <<>>
    /\ w[1] \in Letters \cup {"_"}
    /\ \A j \in 1..Len(w) : w[j] \in IdentChars

\* The text between the first and the last character that is not a blank.
Stripped(t) ==
    LET solid == {j \in 1..Len(t) : t[j] # " "} IN
    IF solid = {} THEN <<>>
    ELSE SubSeq(t, CHOOSE a \in solid : \A j \in solid : a <= j,
                   CHOOSE b \in solid : \A j \in solid : j <= b)

\* The words of a text: its longest runs of characters that are not blanks.
RECURSIVE Words(_)
Words(u) ==
    IF \A j \in 1..Len(u) : u[j] = " " THEN <<>>
    ELSE LET a == CHOOSE j \in 1..Len(u) :
                      u[j] # " " /\ \A h \in 1..(j - 1) : u[h] = " "
             b == CHOOSE j \in a..Len(u) :
                      /\ \A h \in a..j : u[h] # " "
                      /\ (j = Len(u) \/ u[j + 1] = " ")
         IN <<SubSeq(u, a, b)>> \o Words(SubSeq(u, b + 1, Len(u)))

\* A parenthesized group of one or more identifiers separated by blanks.
IsGroup(w) ==
    /\ Len(w) >= 3
    /\ w[1] = "("
    /\ w[Len(w)] = ")"
    /\ LET ws == Words(SubSeq(w, 2, Len(w) - 1)) IN
       ws # <<>> /\ \A n \in 1..Len(ws) : IsIdent(ws[n])

IsEllipsis(w) == w = <<".", ".", ".">>

\* The positions right after a component that starts at position a.
ComponentEnds(t, a) ==
    {b \in (a + 1)..(Len(t) + 1) :
        LET w == SubSeq(t, a, b - 1) IN IsIdent(w) \/ IsEllipsis(w) \/ IsGroup(w)}

\* The positions reached from position a over blanks only.
OverBlanks(t, a) == {b \in a..(Len(t) + 1) : \A j \in a..(b - 1) : t[j] = " "}

\* The positions right after one or more components, blanks optional
\* between them, the first starting at position 1.
RECURSIVE AfterComponents(_, _)
AfterComponents(t, S) ==
    LET more == UNION {ComponentEnds(t, b) :
                          b \in UNION {OverBlanks(t, a) : a \in S}}
    IN IF more \subseteq S THEN S ELSE AfterComponents(t, S \cup more)

IsPatternText(t) == (Len(t) + 1) \in AfterComponents(t, ComponentEnds(t, 1))

\* The number of "..." tokens of a pattern text: its dots come in threes.
EllipsisTokens(t) == Cardinality({j \in 1..Len(t) : t[j] = "."}) \div 3

TextParsed == bpc = "parsed_input"

\* C12: a text that is a well-formed pattern text and holds two or more
\* "..." tokens makes parse fail with InvalidPattern, whatever components
\* surround the ellipses and whether or not blanks separate them.
C12_TwoEllipsesInvalidPattern ==
    (TextParsed /\ IsPatternText(Stripped(text)) /\ EllipsisTokens(text) >= 2)
        => parsed.kind = "InvalidPattern"

\* parse failed with InvalidPattern on a text with a Dim, two ellipses with
\* a group between them and no blank on either side of it, and a Dim.
C12_Witness ==
    /\ TextParsed
    /\ text = <<"b", " ", ".", ".", ".", "(", "x", " ", "y", ")", ".", ".", ".", " ", "c">>
    /\ parsed.kind = "InvalidPattern"

\* The component that a piece of text w writes.
Denotes(w, c) ==
    CASE c.tag = "Dim" -> IsIdent(w) /\ c.ids = <<w>>
      [] c.tag = "Ellipsis" -> IsEllipsis(w)
      [] c.tag = "Composite" ->
            IsGroup(w) /\ c.ids = Words(SubSeq(w, 2, Len(w) - 1))

\* From position a on, the text t writes the components cs[n], cs[n+1], ...
\* in this order, blanks only between them, each identifier in full.
RECURSIVE Spells(_, _, _, _)
Spells(cs, n, t, a) ==
    IF n > Len(cs) THEN a = Len(t) + 1
    ELSE \E a1 \in OverBlanks(t, a) : \E b \in ComponentEnds(t, a1) :
            /\ Denotes(SubSeq(t, a1, b - 1), cs[n])
            /\ (cs[n].tag = "Dim" => (b > Len(t) \/ t[b] \notin IdentChars))
            /\ Spells(cs, n + 1, t, b)

\* C13 as stated: parse succeeds exactly when the input, leading and
\* trailing blanks taken off, is one or more components with optional
\* blanks between them, and then returns these components in the order of
\* the text; every other input gives ParseError with the input as it was
\* passed.
C13_ParseExactlyPatternTexts ==
    TextParsed =>
        IF IsPatternText(Stripped(text))
        THEN /\ parsed.kind = "Ok"
             /\ Spells(parsed.pattern.components, 1, Stripped(text), 1)
        ELSE parsed = ParseError(text)

\* C13, amended: parse succeeds exactly when the input, leading and
\* trailing blanks taken off, is one or more components with optional
\* blanks between them and at most one of them is an ellipsis, and then
\* returns these components in the order of the text; an input that is no
\* such sequence of components gives ParseError with the input as it was
\* passed.
C13_ParseExactlyPatternTextsOfOneEllipsis ==
    TextParsed =>
        IF IsPatternText(Stripped(text))
        THEN IF EllipsisTokens(text) <= 1
             THEN /\ parsed.kind = "Ok"
                  /\ Spells(parsed.pattern.components, 1, Stripped(text), 1)
             ELSE parsed.kind # "Ok"
        ELSE parsed = ParseError(text)

\* parse returned the four components of "b ...( x  y ) c" in their order.
C13_Witness ==
    /\ TextParsed
    /\ text = <<"b", " ", ".", ".", ".", "(", " ", "x", " ", " ", "y", " ", ")", " ", "c">>
    /\ parsed = PatternOk(ShapePattern_new(
                    <<Dim(<<"b">>), Ellipsis,
                      Composite(<< <<"x">>, <<"y">> >>), Dim(<<"c">>)>>))

----------------------------------------------------------------------------
(* Properties of ShapeMatch::select *)

\* The names the components of a pattern hold.
NamesIn(cs) == UNION {{c.ids[n] : n \in 1..Len(c.ids)} : c \in {cs[q] : q \in 1..Len(cs)}}

Selected == mpc = "selected"

\* C14: select(keys) returns an array as long as keys whose n-th element is
\* the value the Match binds keys[n] to; it panics exactly when some key is
\* not bound in the Match, and so for a key that is a name of the external
\* bindings that the pattern does not mention.
C14_SelectReturnsBoundValues ==
    Selected =>
        LET keys == selected.keys
            absent == {n \in 1..Len(keys) : keys[n] \notin DOMAIN matched.bindings}
            extra == {n \in 1..Len(keys) :
                         /\ keys[n] \in DOMAIN bindings
                         /\ keys[n] \notin NamesIn(pattern.components)}
        IN /\ selected.kind = "Panic" <=> absent # {}
           /\ extra # {} => selected.kind = "Panic"
           /\ selected.kind # "Panic" =>
                 /\ selected.kind = "Ok"
                 /\ Len(selected.values) = Len(keys)
                 /\ \A n \in 1..Len(keys) :
                       selected.values[n] = matched.bindings[keys[n]]

\* select(["h", "p"]) panicked on a Match of the pattern "h" made with the
\* external binding p, which the pattern does not mention.
C14_Witness ==
    /\ Selected
    /\ pattern.components = <<Dim(<<"h">>)>>
    /\ <<"p">> \in DOMAIN bindings
    /\ selected.keys = << <<"h">>, <<"p">> >>
    /\ selected.kind = "Panic"

----------------------------------------------------------------------------
(* Properties of building a pattern *)

\* C15: with_ellipsis, and the builder's ellipsis, on a pattern that holds
\* an ellipsis already, reports the problem to the caller as an error, as
\* its documentation says, and does not panic.
C15_SecondEllipsisIsAnError ==
    [][(with_ellipsis /\ IsSome(built.ellipsis_pos)) => bpc' # "panic"]_vars

\* The positions (from one) of the Ellipsis components of a pattern.
EllipsisAt(p) == {n \in 1..Len(p.components) : p.components[n].tag = "Ellipsis"}

WellFormed(p) ==
    /\ Cardinality(EllipsisAt(p)) <= 1
    /\ p.ellipsis_pos = IF EllipsisAt(p) = {} THEN None
                        ELSE Some((CHOOSE n \in EllipsisAt(p) : TRUE) - 1)

\* C18: every pattern that new, empty, the with_ methods (the builder's
\* methods) and parse produce holds at most one Ellipsis, and its
\* ellipsis_pos field is the index of that Ellipsis, None without one; the
\* field is thus fixed by the components, and patterns of equal components
\* are equal whatever route built them.
C18_AtMostOneEllipsisAtStoredPos ==
    /\ WellFormed(built)
    /\ parsed.kind = "Ok" => WellFormed(parsed.pattern)

\* A pattern with an Ellipsis at index 1 was built, and parse returned a
\* pattern with the same components and the same ellipsis_pos.
C18_Witness ==
    /\ bpc = "parsed"
    /\ built.components = <<Dim(<<"h">>), Ellipsis, Dim(<<"p">>)>>
    /\ built.ellipsis_pos = Some(1)
    /\ parsed = PatternOk(built)

----------------------------------------------------------------------------
(* Properties of the Match that match_bindings returns *)

\* The index (from zero) of the pattern's Ellipsis.
EllipsisIndex == (CHOOSE n \in EllipsisAt(pattern) : TRUE) - 1

\* The shape index (from zero) that the claim gives the component at
\* position q (from zero) of a pattern matched against the shape.
ClaimedShapeIndex(q) ==
    IF HasEllipsis(pattern) /\ q > EllipsisIndex
    THEN q - 1 + (Len(shape) - NonEllipsisCount(pattern))
    ELSE q

\* C16: in a match of a pattern with an ellipsis at position p against a
\* shape of n dimensions, k components not being the ellipsis, a component
\* before p is matched against the shape index equal to its position and a
\* component at q > p against index q - 1 + (n - k); the ellipsis adds no
\* binding; the Match returned has ellipsis_range [p, p + n - k), and has
\* None exactly when the pattern has no ellipsis.
C16_EllipsisRangeAndIndices ==
    [][/\ (Reached("Dim") \/ Reached("Composite")) => i = ClaimedShapeIndex(k - 1)
       /\ Reached("Ellipsis") => export' = export
       /\ (result.kind # "Ok" /\ result'.kind = "Ok") =>
             matched'.ellipsis_range =
                 IF HasEllipsis(pattern)
                 THEN Some(<<EllipsisIndex,
                             EllipsisIndex + Len(shape) - NonEllipsisCount(pattern)>>)
                 ELSE None
      ]_vars

\* A Match of "h ... p" against three dimensions: the ellipsis takes the
\* middle one.
C16_Witness ==
    /\ Done
    /\ result.kind = "Ok"
    /\ pattern.components = <<Dim(<<"h">>), Ellipsis, Dim(<<"p">>)>>
    /\ Len(shape) = 3
    /\ matched.ellipsis_range = Some(<<1, 2>>)
    /\ export[<<"p">>] = shape[3]

\* The product of the values a map gives the names ids[n], ids[n+1], ...
RECURSIVE ProductIn(_, _, _)
ProductIn(m, ids, n) ==
    IF n > Len(ids) THEN 1 ELSE m[ids[n]] * ProductIn(m, ids, n + 1)

\* The first component (from one) of the pattern that holds the name.
FirstWith(name) ==
    CHOOSE q \in 1..Len(pattern.components) :
        /\ name \in NamesIn(<<pattern.components[q]>>)
        /\ \A e \in 1..(q - 1) : name \notin NamesIn(<<pattern.components[e]>>)

\* C17: the keys of a Match's bindings are exactly the names of the pattern
\* (Dim names and composite factors); a name the external bindings hold has
\* its external value, any other name the value inferred where the pattern
\* first holds it (the values of that component's names multiply to the
\* dimension it is matched against); an external binding that the pattern
\* does not mention is absent; and the Match's shape is the input shape.
C17_MatchBindsExactlyPatternNames ==
    result.kind = "Ok" =>
        /\ matched.shape = shape
        /\ DOMAIN matched.bindings = NamesIn(pattern.components)
        /\ \A name \in DOMAIN matched.bindings :
              IF name \in DOMAIN bindings
              THEN matched.bindings[name] = bindings[name]
              ELSE ProductIn(matched.bindings,
                             pattern.components[FirstWith(name)].ids, 1)
                       = shape[ShapeIndexOf(FirstWith(name))]
        /\ \A name \in (DOMAIN bindings) \ NamesIn(pattern.components) :
              name \notin DOMAIN matched.bindings

\* A Match of "h" against [2], made with the external bindings h = 2 and
\* p = 1: h is carried over with its external value and p is left out.
C17_Witness ==
    /\ Done
    /\ result.kind = "Ok"
    /\ pattern.components = <<Dim(<<"h">>)>>
    /\ shape = <<2>>
    /\ DOMAIN bindings = {<<"h">>, <<"p">>}
    /\ bindings[<<"p">>] = 1
    /\ DOMAIN matched.bindings = {<<"h">>}
    /\ matched.bindings[<<"h">>] = 2
    /\ matched.shape = <<2>>

----------------------------------------------------------------------------
(* Properties of reading a binding source *)

\* C19: for every binding source and every name, the value match_bindings
\* works with for the name (its read-through lookup in the collected map)
\* is the value lookup_shape_binding returns for the name on that source;
\* a list of pairs that holds a name twice gives both the same occurrence.
C19_MatchUsesLookedUpValue ==
    mpc = "looked" =>
        readthrough_lookup(bindings, EmptyMap, looked.name).value = looked.value

----------------------------------------------------------------------------
(* Properties of the order in which match_bindings resolves names *)

\* The factors (by their place in the component at position q, from one)
\* that neither the external bindings nor an earlier component holds.
UnresolvedBefore(q) ==
    LET ids == pattern.components[q].ids
        external == {source[n][1] : n \in 1..Len(source)}
        earlier == NamesIn(SubSeq(pattern.components, 1, q - 1))
    IN {n \in 1..Len(ids) : ids[n] \notin external \cup earlier}

Returns == mpc # "done" /\ mpc' = "done"

LatePattern == <<Composite(<< <<"h">>, <<"p">> >>), Dim(<<"p">>)>>
EarlyPattern == <<Dim(<<"p">>), Composite(<< <<"h">>, <<"p">> >>)>>

\* What C20 says of the pass in general and of "p (h p)": a Composite is
\* failed with "Multiple Unbound" exactly when more than one of its factors
\* is neither externally bound nor held by an earlier component; and
\* "p (h p)" without external bindings on [p, h*p], p > 0, returns a Match
\* that binds p and h.
SinglePass ==
    /\ Reached("Composite") =>
          (result' = Err("Multiple Unbound")
              <=> Cardinality(UnresolvedBefore(k)) > 1)
    /\ (/\ Returns
        /\ pattern.components = EarlyPattern
        /\ source = <<>>
        /\ Len(shape) = 2
        /\ shape[1] > 0
        /\ IsMultiple(shape[2], shape[1])) =>
          /\ result' = Ok
          /\ matched'.bindings[<<"p">>] = shape[1]
          /\ matched'.bindings[<<"h">>] * shape[1] = shape[2]

\* C20 as stated: names are resolved in one pass from left to right, a
\* factor counting as resolved only if the external bindings or an earlier
\* component hold it; "(h p) p" without external bindings fails with
\* "Multiple Unbound" for every shape, and "p (h p)" on [p, h*p] succeeds.
C20_SinglePassEveryShape ==
    [][/\ SinglePass
       /\ (Returns /\ pattern.components = LatePattern /\ source = <<>>) =>
             result' = Err("Multiple Unbound")
      ]_vars

\* C20, amended: as stated, "(h p) p" without external bindings failing with
\* "Multiple Unbound" for every shape of at least two dimensions.
C20_SinglePassShapesOfTwoOrMore ==
    [][/\ SinglePass
       /\ (/\ Returns
           /\ pattern.components = LatePattern
           /\ source = <<>>
           /\ Len(shape) >= 2) =>
             result' = Err("Multiple Unbound")
      ]_vars

\* "(h p) p" failed with "Multiple Unbound" on a shape whose second
\* dimension would have given p, and so h.
C20_Witness ==
    /\ Done
    /\ pattern.components = LatePattern
    /\ source = <<>>
    /\ shape = <<2, 1>>
    /\ result = Err("Multiple Unbound")

=============================================================================
